---- MODULE Spec2Model ----
(***************************************************************************)
(* Sisyphus server: the daily-progression state machine.                   *)
(*                                                                         *)
(* State: the three SQLite tables (players, daily_plays, deaths), the      *)
(* in-memory rate-limiter map of routes/push.ts, the wall clock, the push  *)
(* requests that have read their player row and are suspended at           *)
(* `await c.req.json()`, and the last response sent.                       *)
(*                                                                         *)
(* A date string is a record [y, m, d] when it matches /^\d{4}-\d{2}-\d{2}$/*)
(* (the three digit groups), and [raw |-> ...] when it does not.  Epoch    *)
(* times are kept in days (Date.getTime() / 86400000): every Date built by *)
(* the server is a UTC midnight, so the division is exact.                 *)
(***************************************************************************)
EXTENDS Integers, Sequences, FiniteSets, Bags, TLC

VARIABLES
  players,       \* table players: id -> row (db/schema.ts), without the timestamps
  daily_plays,   \* table daily_plays: the set of its rows, without id and played_at
  deaths,        \* table deaths: its rows in the order of their ids, without died_at
  pushAttempts,  \* routes/push.ts pushAttempts: id -> the times of admitted attempts
  now,           \* Date.now()
  inflight,      \* push requests between getPlayer and the end of await c.req.json(),
                 \* each with the row getPlayer returned
  resp,          \* the last response sent
  deathsSincePush, \* history: id -> the deaths rows written for the player since
                 \* the last daily_plays row written for them
  client         \* the browser (client app.js): its `state` object, isAnimating,
                 \* the animation that runs and its requests without an answer

vars == <<players, daily_plays, deaths, pushAttempts, now, inflight, resp,
          deathsSincePush, client>>

-----------------------------------------------------------------------------
(* Bounds of the model *)

\* how many push requests may be suspended at once between getPlayer and the
\* body parse, where requests overlap
MaxInflight == 2

\* the largest height and streak passed to the queries of db/queries.ts where
\* they are called directly
MaxStoreHeight == 2

\* how many times the clock advances where time passes
MaxTicks == 3

(* Program constants *)
WINDOW_MS == 60000
MAX_ATTEMPTS == 10

-----------------------------------------------------------------------------
(* utils/date.ts *)

Ymd(y, m, d) == [y |-> y, m |-> m, d |-> d]

\* the regular expression of isValidDateString
MatchesFormat(s) == "y" \in DOMAIN s

\* days since 1970-01-01 of year y, month m, day d; as ECMAScript MakeDay, a
\* day beyond the end of the month runs on into the next month
MakeDay(y, m, d) ==
  LET yy  == IF m <= 2 THEN y - 1 ELSE y
      era == yy \div 400
      yoe == yy - era * 400
      mp  == IF m > 2 THEN m - 3 ELSE m + 9
      doy == (153 * mp + 2) \div 5 + d - 1
      doe == yoe * 365 + yoe \div 4 - yoe \div 100 + doy
  IN  era * 146097 + doe - 719468

\* new Date(s + 'T00:00:00Z'): nan for an Invalid Date, else time, the epoch
\* time in days.  The engine's ISO parser takes any month 01..12 and any day
\* 01..31.
ParseDate(s) ==
  IF ~MatchesFormat(s) THEN [nan |-> TRUE, time |-> 0]
  ELSE IF s.m < 1 \/ s.m > 12 \/ s.d < 1 \/ s.d > 31 THEN [nan |-> TRUE, time |-> 0]
  ELSE [nan |-> FALSE, time |-> MakeDay(s.y, s.m, s.d)]

\* toISOString().split('T')[0] of the UTC midnight t days after the epoch
ToISODate(t) ==
  LET z   == t + 719468
      era == z \div 146097
      doe == z - era * 146097
      yoe == (doe - doe \div 1460 + doe \div 36524 - doe \div 146096) \div 365
      doy == doe - (365 * yoe + yoe \div 4 - yoe \div 100)
      mp  == (5 * doy + 2) \div 153
      d   == doy - (153 * mp + 2) \div 5 + 1
      m   == IF mp < 10 THEN mp + 3 ELSE mp - 9
      y   == yoe + era * 400 + (IF m <= 2 THEN 1 ELSE 0)
  IN  Ymd(y, m, d)

isValidDateString(s) == MatchesFormat(s) /\ ~ParseDate(s).nan

isSameDay(date1, date2) == date1 = date2

\* any later day taken for the next day
isConsecutiveDay_AnyLater(earlier, later) ==
  ParseDate(later).time > ParseDate(earlier).time

\* the next day number taken for the next day: no step over a month end
isConsecutiveDay_SameMonth(earlier, later) ==
  later = Ymd(earlier.y, earlier.m, earlier.d + 1)

isConsecutiveDay(earlier, later) ==
  ToISODate(ParseDate(earlier).time + 1) = ToISODate(ParseDate(later).time)

\* the difference taken the wrong way round
daysBetween_Swapped(earlier, later) ==
  ParseDate(earlier).time - ParseDate(later).time

daysBetween(earlier, later) == ParseDate(later).time - ParseDate(earlier).time

\* a <= b on two strings of the form YYYY-MM-DD (JavaScript string order)
StrLeq(a, b) ==
  \/ a.y < b.y
  \/ a.y = b.y /\ a.m < b.m
  \/ a.y = b.y /\ a.m = b.m /\ a.d <= b.d

-----------------------------------------------------------------------------
(* Inputs *)

\* the value of a missing X-Player-ID header, and of a missing localDate
NoHeader == "(none)"
NoDate == [missing |-> TRUE]

\* SQL NULL in players.last_played_date, and JavaScript null
NULL == [null |-> TRUE]

\* a JavaScript boolean, where the value may also be null
Bool(b) == [bool |-> b]
Truthy(v) == v # NULL /\ v.bool

\* the ids uuidv4() hands out; a header may also carry one not yet handed out
Ids == {"p1"}

\* the ids where two players are served
TwoIds == {"p1", "p2"}
Headers == Ids \cup {NoHeader}

\* the dates clients claim: the end of February 2024 and the start of March
ClientDates ==
  { Ymd(2024, 2, 28), Ymd(2024, 2, 29), Ymd(2024, 3, 1), Ymd(2024, 3, 2) }

\* strings that are not dates: wrong shape, and a month that does not exist
BadDates == { [raw |-> "tomorrow"], Ymd(2024, 13, 1) }

\* request bodies of POST /api/push: unparsable JSON, or an object
BadJson == [badjson |-> TRUE]
Bodies ==
  {BadJson} \cup { [localDate |-> s] : s \in ClientDates \cup BadDates \cup {NoDate} }

-----------------------------------------------------------------------------
(* db/queries.ts and db/schema.ts *)

\* a row of players as INSERT INTO players (id) leaves it; of the two timestamp
\* columns last_seen_at is kept (DEFAULT (datetime('now')))
NewPlayer(id) ==
  [ id |-> id, height |-> 0, streak |-> 0, last_played_date |-> NULL,
    total_pushes |-> 0, max_height |-> 0, death_count |-> 0,
    last_seen_at |-> now ]

\* updatePlayerLastSeen that also clears the height
updatePlayerLastSeen_ClearsHeight(id) ==
  players' = [players EXCEPT ![id] = [@ EXCEPT !.last_seen_at = now, !.height = 0]]

\* UPDATE players SET last_seen_at = datetime('now') WHERE id = ?
updatePlayerLastSeen(id) ==
  players' = [players EXCEPT ![id].last_seen_at = now]

Max(a, b) == IF a >= b THEN a ELSE b

\* a key that also covers height_after
SamePlay_WithHeight(e, playerId, playDate) ==
  /\ e.player_id = playerId /\ e.play_date = playDate
  /\ e.height_after = players[playerId].height + 1

\* the key of daily_plays: UNIQUE(player_id, play_date)
SamePlay(e, playerId, playDate) ==
  e.player_id = playerId /\ e.play_date = playDate

\* the day's push looked up in the players row instead of the ledger
hasPlayedDate_LastPlayed(playerId, playDate) ==
  players[playerId].last_played_date = playDate

hasPlayedDate(playerId, playDate) ==
  \E e \in daily_plays : SamePlay(e, playerId, playDate)

\* recordPush without the high-water mark
recordPush_NoMax(playerId, playDate, newHeight, newStreak) ==
  IF \E e \in daily_plays : SamePlay(e, playerId, playDate)
  THEN UNCHANGED <<players, daily_plays>>
  ELSE /\ players' = [players EXCEPT ![playerId] =
                        [@ EXCEPT !.height = newHeight,
                                  !.streak = newStreak,
                                  !.last_seen_at = now,
                                  !.last_played_date = playDate,
                                  !.total_pushes = @ + 1]]
       /\ daily_plays' = daily_plays \cup
            {[ player_id |-> playerId, play_date |-> playDate,
               height_after |-> newHeight, streak_at_time |-> newStreak ]}

\* recordPush that does not count the push
recordPush_NoCount(playerId, playDate, newHeight, newStreak) ==
  IF \E e \in daily_plays : SamePlay(e, playerId, playDate)
  THEN UNCHANGED <<players, daily_plays>>
  ELSE /\ players' = [players EXCEPT ![playerId] =
                        [@ EXCEPT !.height = newHeight,
                                  !.streak = newStreak,
                                  !.last_seen_at = now,
                                  !.last_played_date = playDate,
                                  !.max_height = Max(@, newHeight)]]
       /\ daily_plays' = daily_plays \cup
            {[ player_id |-> playerId, play_date |-> playDate,
               height_after |-> newHeight, streak_at_time |-> newStreak ]}

\* recordPush without the transaction: the UPDATE stays when the INSERT throws
recordPush_NotAtomic(playerId, playDate, newHeight, newStreak) ==
  /\ players' = [players EXCEPT ![playerId] =
                   [@ EXCEPT !.height = newHeight,
                             !.streak = newStreak,
                                  !.last_seen_at = now,
                             !.last_played_date = playDate,
                             !.total_pushes = @ + 1,
                             !.max_height = Max(@, newHeight)]]
  /\ IF \E e \in daily_plays : SamePlay(e, playerId, playDate)
     THEN UNCHANGED daily_plays
     ELSE daily_plays' = daily_plays \cup
            {[ player_id |-> playerId, play_date |-> playDate,
               height_after |-> newHeight, streak_at_time |-> newStreak ]}

\* recordPush that overwrites the high-water mark
recordPush_MaxOverwritten(playerId, playDate, newHeight, newStreak) ==
  IF \E e \in daily_plays : SamePlay(e, playerId, playDate)
  THEN UNCHANGED <<players, daily_plays>>
  ELSE /\ players' = [players EXCEPT ![playerId] =
                        [@ EXCEPT !.height = newHeight,
                                  !.streak = newStreak,
                                  !.last_seen_at = now,
                                  !.last_played_date = playDate,
                                  !.total_pushes = @ + 1,
                                  !.max_height = newHeight]]
       /\ daily_plays' = daily_plays \cup
            {[ player_id |-> playerId, play_date |-> playDate,
               height_after |-> newHeight, streak_at_time |-> newStreak ]}

\* the transaction of recordPush: both statements, or (when the insert breaks
\* the UNIQUE constraint and throws) neither
recordPush(playerId, playDate, newHeight, newStreak) ==
  IF \E e \in daily_plays : SamePlay(e, playerId, playDate)
  THEN UNCHANGED <<players, daily_plays>>
  ELSE /\ players' = [players EXCEPT ![playerId] =
                        [@ EXCEPT !.height = newHeight,
                                  !.streak = newStreak,
                                  !.last_seen_at = now,
                                  !.last_played_date = playDate,
                                  !.total_pushes = @ + 1,
                                  !.max_height = Max(@, newHeight)]]
       /\ daily_plays' = daily_plays \cup
            {[ player_id |-> playerId, play_date |-> playDate,
               height_after |-> newHeight, streak_at_time |-> newStreak ]}

\* recordDeath that only appends to the ledger
recordDeath_NoReset(playerId, heightLost, streakLost, daysMissed) ==
  /\ deaths' = Append(deaths,
        [ player_id |-> playerId, height_lost |-> heightLost,
          streak_lost |-> streakLost, days_missed |-> daysMissed ])
  /\ UNCHANGED players

\* recordDeath that resets the player but does not count the death
recordDeath_NoCount(playerId, heightLost, streakLost, daysMissed) ==
  /\ deaths' = Append(deaths,
        [ player_id |-> playerId, height_lost |-> heightLost,
          streak_lost |-> streakLost, days_missed |-> daysMissed ])
  /\ players' = [players EXCEPT ![playerId] =
                   [@ EXCEPT !.height = 0, !.streak = 0, !.last_seen_at = now]]

\* recordDeath whose UPDATE has no WHERE id = ? clause: every row is reset
recordDeath_AllPlayers(playerId, heightLost, streakLost, daysMissed) ==
  /\ deaths' = Append(deaths,
        [ player_id |-> playerId, height_lost |-> heightLost,
          streak_lost |-> streakLost, days_missed |-> daysMissed ])
  /\ players' = [i \in DOMAIN players |->
                   [players[i] EXCEPT !.height = 0, !.streak = 0,
                                      !.death_count = @ + 1,
                                      !.last_seen_at = now]]

\* recordDeath that resets the height and keeps the streak
recordDeath_KeepsStreak(playerId, heightLost, streakLost, daysMissed) ==
  /\ deaths' = Append(deaths,
        [ player_id |-> playerId, height_lost |-> heightLost,
          streak_lost |-> streakLost, days_missed |-> daysMissed ])
  /\ players' = [players EXCEPT ![playerId] =
                   [@ EXCEPT !.height = 0, !.death_count = @ + 1,
                             !.last_seen_at = now]]

\* the transaction of recordDeath
recordDeath(playerId, heightLost, streakLost, daysMissed) ==
  /\ deaths' = Append(deaths,
        [ player_id |-> playerId, height_lost |-> heightLost,
          streak_lost |-> streakLost, days_missed |-> daysMissed ])
  /\ players' = [players EXCEPT ![playerId] =
                   [@ EXCEPT !.height = 0, !.streak = 0, !.death_count = @ + 1,
                             !.last_seen_at = now]]

-----------------------------------------------------------------------------
(* routes/push.ts: the rate limiter *)

\* attempts.filter((t) => now - t < WINDOW_MS)
RecentAttempts(playerId) ==
  SelectSeq(pushAttempts[playerId], LAMBDA t : now - t < WINDOW_MS)

\* a limiter that rejects from the twelfth attempt on
isRateLimited_OneMore(playerId) == Len(RecentAttempts(playerId)) > MAX_ATTEMPTS

\* the value isRateLimited returns
isRateLimited(playerId) == Len(RecentAttempts(playerId)) >= MAX_ATTEMPTS

\* a limiter that records rejected attempts too
RateLimiterStep_RecordsRejected(playerId) ==
  pushAttempts' =
    [pushAttempts EXCEPT ![playerId] = Append(RecentAttempts(playerId), now)]

\* the effect of isRateLimited on the map
RateLimiterStep(playerId) ==
  IF isRateLimited(playerId)
  THEN UNCHANGED pushAttempts
  ELSE pushAttempts' =
         [pushAttempts EXCEPT ![playerId] = Append(RecentAttempts(playerId), now)]

-----------------------------------------------------------------------------
(* Responses *)

\* A response: the JSON body and the status, with the route that sent it (op)
\* and the X-Player-ID header of the request it answers (to).
\* c.json({ error: code, message: ... }, status)
Error(op, to, status, code) ==
  [ op |-> op, to |-> to, status |-> status, error |-> code ]

-----------------------------------------------------------------------------
(* routes/player.ts *)

\* POST /api/player/register
Register(newId) ==
    /\ newId \notin DOMAIN players
    /\ players' = [i \in DOMAIN players \cup {newId} |->
                     IF i = newId THEN NewPlayer(newId) ELSE players[i]]
    /\ resp' = [ op |-> "register", to |-> NoHeader, status |-> 200,
                 error |-> "", id |-> newId ]
    /\ UNCHANGED <<daily_plays, deaths, pushAttempts, now, inflight>>

\* the body of a GET whose rollback test leaves out the dates already passed
PlayerState_NoPastCheck(playerId, player, isNew, localDate) ==
  LET isBeforeOrSameAsLastPlayed ==
        IF player.last_played_date # NULL
        THEN Bool(StrLeq(localDate, player.last_played_date))
        ELSE NULL
      needsRollback ==
        /\ ~isNew
        /\ player.last_played_date # NULL
        /\ player.height > 0
        /\ ~isConsecutiveDay(player.last_played_date, localDate)
  IN  [ op |-> "get", to |-> playerId, status |-> 200, error |-> "",
        id |-> player.id,
        height |-> player.height,
        streak |-> player.streak,
        lastPlayedDate |-> player.last_played_date,
        hasPlayedToday |-> isBeforeOrSameAsLastPlayed,
        needsRollback |-> needsRollback,
        previousHeight |-> IF needsRollback THEN player.height ELSE 0,
        totalPushes |-> player.total_pushes,
        maxHeight |-> player.max_height,
        deathCount |-> player.death_count ]

\* the body of a successful GET /api/player for the row `player`
PlayerState(playerId, player, isNew, localDate) ==
  LET isBeforeOrSameAsLastPlayed ==
        IF player.last_played_date # NULL
        THEN Bool(StrLeq(localDate, player.last_played_date))
        ELSE NULL
      needsRollback ==
        /\ ~isNew
        /\ player.last_played_date # NULL
        /\ player.height > 0
        /\ ~Truthy(isBeforeOrSameAsLastPlayed)
        /\ ~isConsecutiveDay(player.last_played_date, localDate)
  IN  [ op |-> "get", to |-> playerId, status |-> 200, error |-> "",
        id |-> player.id,
        height |-> player.height,
        streak |-> player.streak,
        lastPlayedDate |-> player.last_played_date,
        hasPlayedToday |-> isBeforeOrSameAsLastPlayed,
        needsRollback |-> needsRollback,
        previousHeight |-> IF needsRollback THEN player.height ELSE 0,
        totalPushes |-> player.total_pushes,
        maxHeight |-> player.max_height,
        deathCount |-> player.death_count ]

\* GET /api/player that creates the player before it validates the date
Get_CreatesFirst(playerId, localDate, newId) ==
  /\ UNCHANGED <<daily_plays, deaths, pushAttempts, now, inflight>>
  /\ IF localDate = NoDate \/ ~isValidDateString(localDate)
     THEN /\ resp' = Error("get", playerId, 400, "invalid_date")
          /\ IF playerId = NoHeader /\ newId \notin DOMAIN players
             THEN players' = [i \in DOMAIN players \cup {newId} |->
                                IF i = newId THEN NewPlayer(newId) ELSE players[i]]
             ELSE UNCHANGED players
     ELSE IF playerId # NoHeader
     THEN IF playerId \notin DOMAIN players
          THEN /\ resp' = Error("get", playerId, 404, "invalid_player")
               /\ UNCHANGED players
          ELSE /\ updatePlayerLastSeen(playerId)
               /\ resp' = PlayerState(playerId, players[playerId], FALSE, localDate)
     ELSE   /\ newId \notin DOMAIN players
            /\ players' = [i \in DOMAIN players \cup {newId} |->
                             IF i = newId THEN NewPlayer(newId) ELSE players[i]]
            /\ resp' = PlayerState(playerId, NewPlayer(newId), TRUE, localDate)

\* GET /api/player that looks the player up before it validates the date
Get_LooksUpFirst(playerId, localDate, newId) ==
  /\ UNCHANGED <<daily_plays, deaths, pushAttempts, now, inflight>>
  /\ IF playerId # NoHeader /\ playerId \notin DOMAIN players
     THEN /\ resp' = Error("get", playerId, 404, "invalid_player")
          /\ UNCHANGED players
     ELSE
     IF localDate = NoDate \/ ~isValidDateString(localDate)
     THEN /\ resp' = Error("get", playerId, 400, "invalid_date")
          /\ UNCHANGED players
     ELSE IF playerId # NoHeader
     THEN IF playerId \notin DOMAIN players
          THEN /\ resp' = Error("get", playerId, 404, "invalid_player")
               /\ UNCHANGED players
          ELSE /\ updatePlayerLastSeen(playerId)
               /\ resp' = PlayerState(playerId, players[playerId], FALSE, localDate)
     ELSE   /\ newId \notin DOMAIN players
            /\ players' = [i \in DOMAIN players \cup {newId} |->
                             IF i = newId THEN NewPlayer(newId) ELSE players[i]]
            /\ resp' = PlayerState(playerId, NewPlayer(newId), TRUE, localDate)

\* GET /api/player
Get(playerId, localDate, newId) ==
  /\ UNCHANGED <<daily_plays, deaths, pushAttempts, now, inflight>>
  /\ IF localDate = NoDate \/ ~isValidDateString(localDate)
     THEN /\ resp' = Error("get", playerId, 400, "invalid_date")
          /\ UNCHANGED players
     ELSE IF playerId # NoHeader
     THEN IF playerId \notin DOMAIN players
          THEN /\ resp' = Error("get", playerId, 404, "invalid_player")
               /\ UNCHANGED players
          ELSE /\ updatePlayerLastSeen(playerId)
               /\ resp' = PlayerState(playerId, players[playerId], FALSE, localDate)
     ELSE   /\ newId \notin DOMAIN players
            /\ players' = [i \in DOMAIN players \cup {newId} |->
                             IF i = newId THEN NewPlayer(newId) ELSE players[i]]
            /\ resp' = PlayerState(playerId, NewPlayer(newId), TRUE, localDate)

-----------------------------------------------------------------------------
(* routes/push.ts *)

\* the push whose rollback test leaves out player.height > 0
PushBody_NoHeightTest(playerId, player, body) ==
  IF body = BadJson
  THEN /\ resp' = Error("push", playerId, 400, "invalid_body")
       /\ UNCHANGED <<players, daily_plays, deaths>>
  ELSE LET localDate == body.localDate IN
  IF localDate = NoDate \/ ~isValidDateString(localDate)
  THEN /\ resp' = Error("push", playerId, 400, "invalid_date")
       /\ UNCHANGED <<players, daily_plays, deaths>>
  ELSE IF hasPlayedDate(playerId, localDate)
  THEN /\ resp' = Error("push", playerId, 409, "already_played_today")
       /\ UNCHANGED <<players, daily_plays, deaths>>
  ELSE IF /\ player.last_played_date # NULL
          /\ ~isSameDay(player.last_played_date, localDate)
          /\ ~isConsecutiveDay(player.last_played_date, localDate)
  THEN LET daysMissed == daysBetween(player.last_played_date, localDate) - 1 IN
       /\ recordDeath(playerId, player.height, player.streak, daysMissed)
       /\ resp' = [ op |-> "push", to |-> playerId, status |-> 409,
                    error |-> "rollback_required",
                    heightLost |-> player.height,
                    streakLost |-> player.streak,
                    daysMissed |-> daysMissed ]
       /\ UNCHANGED daily_plays
  ELSE LET newHeight == player.height + 1
           newStreak == player.streak + 1 IN
       /\ recordPush(playerId, localDate, newHeight, newStreak)
       /\ resp' = [ op |-> "push", to |-> playerId, status |-> 200, error |-> "",
                    success |-> TRUE, height |-> newHeight, streak |-> newStreak ]
       /\ UNCHANGED deaths

\* POST /api/push from the body parse on, for the row `player` that getPlayer
\* returned before the handler waited for the body
PushBody(playerId, player, body) ==
  IF body = BadJson
  THEN /\ resp' = Error("push", playerId, 400, "invalid_body")
       /\ UNCHANGED <<players, daily_plays, deaths>>
  ELSE LET localDate == body.localDate IN
  IF localDate = NoDate \/ ~isValidDateString(localDate)
  THEN /\ resp' = Error("push", playerId, 400, "invalid_date")
       /\ UNCHANGED <<players, daily_plays, deaths>>
  ELSE IF hasPlayedDate(playerId, localDate)
  THEN /\ resp' = Error("push", playerId, 409, "already_played_today")
       /\ UNCHANGED <<players, daily_plays, deaths>>
  ELSE IF /\ player.last_played_date # NULL
          /\ player.height > 0
          /\ ~isSameDay(player.last_played_date, localDate)
          /\ ~isConsecutiveDay(player.last_played_date, localDate)
  THEN LET daysMissed == daysBetween(player.last_played_date, localDate) - 1 IN
       /\ recordDeath(playerId, player.height, player.streak, daysMissed)
       /\ resp' = [ op |-> "push", to |-> playerId, status |-> 409,
                    error |-> "rollback_required",
                    heightLost |-> player.height,
                    streakLost |-> player.streak,
                    daysMissed |-> daysMissed ]
       /\ UNCHANGED daily_plays
  ELSE LET newHeight == player.height + 1
           newStreak == player.streak + 1 IN
       /\ recordPush(playerId, localDate, newHeight, newStreak)
       /\ resp' = [ op |-> "push", to |-> playerId, status |-> 200, error |-> "",
                    success |-> TRUE, height |-> newHeight, streak |-> newStreak ]
       /\ UNCHANGED deaths

\* a push that looks the player up before it asks the rate limiter
PushBegin_LooksUpFirst(playerId) ==
  /\ UNCHANGED <<players, daily_plays, deaths, now>>
  /\ IF playerId = NoHeader
     THEN /\ resp' = Error("push", playerId, 400, "missing_player_id")
          /\ UNCHANGED <<pushAttempts, inflight>>
     ELSE IF playerId \notin DOMAIN players
     THEN /\ resp' = Error("push", playerId, 404, "invalid_player")
          /\ UNCHANGED <<pushAttempts, inflight>>
     ELSE
     /\ RateLimiterStep(playerId)
     /\ IF isRateLimited(playerId)
        THEN /\ resp' = Error("push", playerId, 429, "rate_limited")
             /\ UNCHANGED inflight
        ELSE /\ inflight' = inflight (+)
                   SetToBag({[ playerId |-> playerId, player |-> players[playerId] ]})
             /\ UNCHANGED resp

\* POST /api/push up to `await c.req.json()`: header, rate limiter, getPlayer
PushBegin(playerId) ==
  /\ UNCHANGED <<players, daily_plays, deaths, now>>
  /\ IF playerId = NoHeader
     THEN /\ resp' = Error("push", playerId, 400, "missing_player_id")
          /\ UNCHANGED <<pushAttempts, inflight>>
     ELSE
     /\ RateLimiterStep(playerId)
     /\ IF isRateLimited(playerId)
        THEN /\ resp' = Error("push", playerId, 429, "rate_limited")
             /\ UNCHANGED inflight
        ELSE IF playerId \notin DOMAIN players
        THEN /\ resp' = Error("push", playerId, 404, "invalid_player")
             /\ UNCHANGED inflight
        ELSE /\ inflight' = inflight (+)
                   SetToBag({[ playerId |-> playerId, player |-> players[playerId] ]})
             /\ UNCHANGED resp

\* POST /api/push once the body has arrived
PushEnd(req, body) ==
  /\ BagIn(req, inflight)
  /\ inflight' = inflight (-) SetToBag({req})
  /\ PushBody(req.playerId, req.player, body)
  /\ UNCHANGED <<pushAttempts, now>>

\* acknowledge-rollback that records a death whatever the height
AcknowledgeRollback_Always(playerId) ==
  /\ UNCHANGED <<daily_plays, pushAttempts, now, inflight>>
  /\ IF playerId = NoHeader
     THEN /\ resp' = Error("ack", playerId, 400, "missing_player_id")
          /\ UNCHANGED <<players, deaths>>
     ELSE IF playerId \notin DOMAIN players
     THEN /\ resp' = Error("ack", playerId, 404, "invalid_player")
          /\ UNCHANGED <<players, deaths>>
     ELSE LET player == players[playerId] IN
          /\ recordDeath(playerId, player.height, player.streak, 1)
          /\ resp' = [ op |-> "ack", to |-> playerId, status |-> 200, error |-> "",
                       success |-> TRUE,
                       height |-> players'[playerId].height,
                       streak |-> players'[playerId].streak ]

\* acknowledge-rollback put behind the rate limiter of the push
AcknowledgeRollback_Limited(playerId) ==
  /\ UNCHANGED <<daily_plays, now, inflight>>
  /\ IF playerId = NoHeader
     THEN /\ resp' = Error("ack", playerId, 400, "missing_player_id")
          /\ UNCHANGED <<players, deaths, pushAttempts>>
     ELSE
     /\ RateLimiterStep(playerId)
     /\ IF isRateLimited(playerId)
        THEN /\ resp' = Error("ack", playerId, 429, "rate_limited")
             /\ UNCHANGED <<players, deaths>>
        ELSE IF playerId \notin DOMAIN players
        THEN /\ resp' = Error("ack", playerId, 404, "invalid_player")
             /\ UNCHANGED <<players, deaths>>
        ELSE LET player == players[playerId] IN
             /\ IF player.height > 0
                THEN recordDeath(playerId, player.height, player.streak, 1)
                ELSE UNCHANGED <<players, deaths>>
             /\ resp' = [ op |-> "ack", to |-> playerId, status |-> 200, error |-> "",
                          success |-> TRUE,
                          height |-> players'[playerId].height,
                          streak |-> players'[playerId].streak ]

\* POST /api/push/acknowledge-rollback
AcknowledgeRollback(playerId) ==
  /\ UNCHANGED <<daily_plays, pushAttempts, now, inflight>>
  /\ IF playerId = NoHeader
     THEN /\ resp' = Error("ack", playerId, 400, "missing_player_id")
          /\ UNCHANGED <<players, deaths>>
     ELSE IF playerId \notin DOMAIN players
     THEN /\ resp' = Error("ack", playerId, 404, "invalid_player")
          /\ UNCHANGED <<players, deaths>>
     ELSE LET player == players[playerId] IN
          /\ IF player.height > 0
             THEN recordDeath(playerId, player.height, player.streak, 1)
             ELSE UNCHANGED <<players, deaths>>
          /\ resp' = [ op |-> "ack", to |-> playerId, status |-> 200, error |-> "",
                       success |-> TRUE,
                       height |-> players'[playerId].height,
                       streak |-> players'[playerId].streak ]

-----------------------------------------------------------------------------
(* The clock *)

\* the step of the clock: half a rate-limiter window
TickMs == WINDOW_MS \div 2

\* time passes
Tick(ms) ==
  /\ now' = now + ms
  /\ UNCHANGED <<players, daily_plays, deaths, pushAttempts, inflight, resp>>

-----------------------------------------------------------------------------
(* The server *)

\* the browser before loadState: the literal `state` and isAnimating = false
\* of the client, no animation running, no request sent
ClientInit ==
  [ height |-> 0, hasPlayedToday |-> Bool(FALSE), needsRollback |-> FALSE,
    previousHeight |-> 0, isAnimating |-> FALSE, animation |-> "none",
    pushes |-> 0, acks |-> 0 ]

Init ==
  /\ players = [i \in {} |-> NewPlayer(i)]
  /\ daily_plays = {}
  /\ deaths = <<>>
  /\ pushAttempts = [i \in TwoIds |-> <<>>]
  /\ now = 0
  /\ inflight = EmptyBag
  /\ resp = [ op |-> "none", to |-> NoHeader, status |-> 0, error |-> "" ]
  /\ deathsSincePush = [i \in {} |-> 0]
  /\ client = ClientInit

\* The history variable follows the tables: a step that inserts a daily_plays
\* row of a player starts their count again, and every deaths row inserted for
\* them adds one.  A step of the server leaves the browser as it is.
Observe ==
  /\ deathsSincePush' =
      [ p \in DOMAIN players' |->
          IF \E e \in daily_plays' \ daily_plays : e.player_id = p
          THEN 0
          ELSE (IF p \in DOMAIN deathsSincePush THEN deathsSincePush[p] ELSE 0)
               + Cardinality({ i \in (Len(deaths) + 1)..Len(deaths') :
                                 deaths'[i].player_id = p }) ]
  /\ UNCHANGED client

\* no push request is waiting for its body
Idle == inflight = EmptyBag

\* Requests one after the other: a request is sent when the one before it has
\* been answered.  The clock stands still, so every request falls into one
\* rate-limiter window.
Next ==
  \/ \E newId \in Ids : Idle /\ Register(newId) /\ Observe
  \/ \E h \in Headers, s \in ClientDates \cup BadDates \cup {NoDate}, newId \in Ids :
       Idle /\ Get(h, s, newId) /\ Observe
  \/ \E h \in Headers : Idle /\ PushBegin(h) /\ Observe
  \/ \E h \in Headers : Idle /\ AcknowledgeRollback(h) /\ Observe
  \/ \E req \in BagToSet(inflight), body \in Bodies : PushEnd(req, body) /\ Observe

Spec == Init /\ [][Next]_vars

\* the dates of the clients whose requests overlap
RaceDates == { Ymd(2024, 2, 28), Ymd(2024, 2, 29), Ymd(2024, 3, 2) }

\* Overlapping requests: while push requests wait for their bodies, any other
\* request that writes may be served.  GET /api/player with an X-Player-ID
\* header writes none of the columns kept here, so it is left to Spec.
NextRace ==
  \/ \E newId \in Ids : Register(newId) /\ Observe
  \/ \E h \in Ids : BagCardinality(inflight) < MaxInflight /\ PushBegin(h) /\ Observe
  \/ \E h \in Ids : AcknowledgeRollback(h) /\ Observe
  \/ \E req \in BagToSet(inflight), s \in RaceDates :
       PushEnd(req, [localDate |-> s]) /\ Observe

SpecRace == Init /\ [][NextRace]_vars

\* Overlapping push requests of a player and nothing else: every write between
\* the getPlayer of a push and its own write is the write of another push.
NextPushes ==
  \/ \E newId \in Ids : Register(newId) /\ Observe
  \/ \E h \in Ids : BagCardinality(inflight) < MaxInflight /\ PushBegin(h) /\ Observe
  \/ \E req \in BagToSet(inflight), s \in RaceDates :
       PushEnd(req, [localDate |-> s]) /\ Observe

SpecPushes == Init /\ [][NextPushes]_vars

\* Requests one after the other while time passes: between two requests the
\* clock may advance by half a window, MaxTicks times in all.
ClockDates == { Ymd(2024, 2, 28), Ymd(2024, 3, 2) }

NextClock ==
  \/ \E newId \in Ids : Idle /\ Register(newId) /\ Observe
  \/ \E h \in Headers, s \in ClockDates, newId \in Ids :
       Idle /\ Get(h, s, newId) /\ Observe
  \/ \E h \in Headers : Idle /\ PushBegin(h) /\ Observe
  \/ \E h \in Headers : Idle /\ AcknowledgeRollback(h) /\ Observe
  \/ \E req \in BagToSet(inflight), s \in ClockDates :
       PushEnd(req, [localDate |-> s]) /\ Observe
  \/ Idle /\ now < MaxTicks * TickMs /\ Tick(TickMs) /\ Observe

SpecClock == Init /\ [][NextClock]_vars

\* Two players whose requests interleave: while push requests wait for their
\* bodies, any request of either player may be served.
TwoDates == { Ymd(2024, 2, 28) }

NextTwo ==
  \/ \E newId \in TwoIds : Register(newId) /\ Observe
  \/ \E h \in TwoIds, s \in TwoDates, newId \in TwoIds :
       Get(h, s, newId) /\ Observe
  \/ \E h \in TwoIds : BagCardinality(inflight) < MaxInflight /\ PushBegin(h) /\ Observe
  \/ \E h \in TwoIds : AcknowledgeRollback(h) /\ Observe
  \/ \E req \in BagToSet(inflight), s \in TwoDates :
       PushEnd(req, [localDate |-> s]) /\ Observe

SpecTwo == Init /\ [][NextTwo]_vars

\* db/queries.ts called with any arguments: recordPush(playerId, playDate,
\* newHeight, newStreak) for a registered player, the heights and streaks drawn
\* from StoreHeights.  Here the INSERT of recordPush can break the UNIQUE
\* constraint, which the route's hasPlayedDate check otherwise prevents; resp
\* then holds the error the call throws.
StoreHeights == 1..MaxStoreHeight

CallRecordPush(playerId, playDate, newHeight, newStreak) ==
  /\ playerId \in DOMAIN players
  /\ recordPush(playerId, playDate, newHeight, newStreak)
  /\ resp' = [ op |-> "recordPush", to |-> playerId, status |-> 0,
               error |-> IF hasPlayedDate(playerId, playDate)
                         THEN "SQLITE_CONSTRAINT_UNIQUE" ELSE "" ]
  /\ UNCHANGED <<deaths, pushAttempts, now, inflight>>

NextStore ==
  \/ \E newId \in Ids : Register(newId) /\ Observe
  \/ \E p \in Ids, s \in RaceDates, h \in StoreHeights, k \in StoreHeights :
       CallRecordPush(p, s, h, k) /\ Observe

SpecStore == Init /\ [][NextStore]_vars

-----------------------------------------------------------------------------
\* utils/date.ts called with any strings: the three functions applied to
\* strings of the form YYYY-MM-DD around the ends of months and of years, real
\* dates or not (a 29th or 30th of February, a 31st of April, a 13th month, a
\* 32nd or a 0th day, a month 0), and to a string of another form.  resp holds the call and
\* what it returned or threw.
DateStrings ==
  { Ymd(2023, 2, 28), Ymd(2023, 2, 29), Ymd(2023, 3, 1), Ymd(2023, 12, 31),
    Ymd(2024, 1, 1), Ymd(2024, 1, 31), Ymd(2024, 2, 1), Ymd(2024, 2, 28),
    Ymd(2024, 2, 29), Ymd(2024, 2, 30), Ymd(2024, 3, 1), Ymd(2024, 3, 2),
    Ymd(2024, 4, 30), Ymd(2024, 4, 31), Ymd(2024, 5, 1), Ymd(2024, 13, 1),
    Ymd(2024, 1, 32), Ymd(2024, 0, 10), Ymd(2024, 3, 0),
    [raw |-> "tomorrow"] }

\* a JavaScript number, where the value may also be NaN
Num(n) == [num |-> n]
NaN == [nan |-> TRUE]

CallIsValidDateString(dateStr) ==
  /\ resp' = [ op |-> "isValidDateString", to |-> NoHeader, status |-> 0,
               error |-> "", dateStr |-> dateStr,
               result |-> Bool(isValidDateString(dateStr)) ]
  /\ UNCHANGED <<players, daily_plays, deaths, pushAttempts, now, inflight>>

\* toISOString() of an Invalid Date throws a RangeError
CallIsConsecutiveDay(earlier, later) ==
  /\ resp' = [ op |-> "isConsecutiveDay", to |-> NoHeader, status |-> 0,
               earlier |-> earlier, later |-> later,
               error |-> IF ParseDate(earlier).nan \/ ParseDate(later).nan
                         THEN "RangeError" ELSE "",
               result |-> IF ParseDate(earlier).nan \/ ParseDate(later).nan
                          THEN NULL
                          ELSE Bool(isConsecutiveDay(earlier, later)) ]
  /\ UNCHANGED <<players, daily_plays, deaths, pushAttempts, now, inflight>>

\* getTime() of an Invalid Date is NaN, and so is the difference
CallDaysBetween(earlier, later) ==
  /\ resp' = [ op |-> "daysBetween", to |-> NoHeader, status |-> 0,
               error |-> "", earlier |-> earlier, later |-> later,
               result |-> IF ParseDate(earlier).nan \/ ParseDate(later).nan
                          THEN NaN
                          ELSE Num(daysBetween(earlier, later)) ]
  /\ UNCHANGED <<players, daily_plays, deaths, pushAttempts, now, inflight>>

NextDates ==
  \/ \E s \in DateStrings : CallIsValidDateString(s) /\ Observe
  \/ \E a \in DateStrings, b \in DateStrings : CallIsConsecutiveDay(a, b) /\ Observe
  \/ \E a \in DateStrings, b \in DateStrings : CallDaysBetween(a, b) /\ Observe

SpecDates == Init /\ [][NextDates]_vars

-----------------------------------------------------------------------------
(* The client (app.js): pushBoulder and the two-phase rollback *)

\* no table, limiter map or response of the server changes in a client step
ServerUnchanged ==
  UNCHANGED <<players, daily_plays, deaths, pushAttempts, now, inflight, resp,
              deathsSincePush>>

\* the bodies GET /api/player can answer, as far as loadState reads them:
\* needsRollback comes with height > 0, previousHeight = height and
\* hasPlayedToday not true, and previousHeight is 0 without it
ServerStates ==
  { s \in [ height : 0..MaxStoreHeight,
            hasPlayedToday : {NULL, Bool(FALSE), Bool(TRUE)},
            needsRollback : BOOLEAN,
            previousHeight : 0..MaxStoreHeight ] :
      /\ s.needsRollback => (s.height > 0 /\ ~Truthy(s.hasPlayedToday))
      /\ s.previousHeight = (IF s.needsRollback THEN s.height ELSE 0) }

\* loadState(): the answer of api.getPlayer() is copied into state, at start
\* and whenever the reload button asks for it
loadState(serverState) ==
  /\ client' = [client EXCEPT
        !.height = serverState.height,
        !.hasPlayedToday = serverState.hasPlayedToday,
        !.needsRollback = serverState.needsRollback,
        !.previousHeight = IF serverState.previousHeight # 0
                           THEN serverState.previousHeight
                           ELSE serverState.height]
  /\ ServerUnchanged

\* pushBoulder() up to `await api.push()`: a click on the boulder that is not
\* dropped by `if (isAnimating) return` (DEV_MODE is true, so hasPlayedToday
\* does not stop it).  With a rollback pending it calls triggerRollback(),
\* whose animateRollback sets isAnimating; otherwise it sends the push.
pushBoulder ==
  /\ ~client.isAnimating
  /\ IF client.needsRollback /\ client.previousHeight > 0
     THEN client' = [client EXCEPT !.isAnimating = TRUE, !.animation = "rollback"]
     ELSE /\ client.pushes < MaxInflight
          /\ client' = [client EXCEPT !.isAnimating = TRUE, !.pushes = @ + 1]
  /\ ServerUnchanged

\* pushBoulder() after `await api.push()`: success with the new height, or the
\* catch branch with the error code (heightLost for rollback_required)
pushAnswered(code, height) ==
  /\ client.pushes > 0
  /\ client' =
       IF code = ""
       THEN [client EXCEPT !.pushes = @ - 1, !.height = height,
                           !.hasPlayedToday = Bool(TRUE), !.animation = "push"]
       ELSE IF code = "already_played_today"
       THEN [client EXCEPT !.pushes = @ - 1, !.isAnimating = FALSE,
                           !.hasPlayedToday = Bool(TRUE)]
       ELSE IF code = "rollback_required"
       THEN [client EXCEPT !.pushes = @ - 1, !.needsRollback = TRUE,
                           !.previousHeight = height,
                           !.isAnimating = TRUE, !.animation = "rollback"]
       ELSE [client EXCEPT !.pushes = @ - 1, !.isAnimating = FALSE]
  /\ ServerUnchanged

\* the onComplete of animatePush
animatePushComplete ==
  /\ client.animation = "push"
  /\ client' = [client EXCEPT !.isAnimating = FALSE, !.animation = "none"]
  /\ ServerUnchanged

\* the last frame of rollDown: the local reset, isAnimating = false, and then
\* done(), which sends acknowledge-rollback
rollDownComplete ==
  /\ client.animation = "rollback"
  /\ client.acks < MaxInflight
  /\ client' = [client EXCEPT !.height = 0, !.hasPlayedToday = Bool(FALSE),
                              !.needsRollback = FALSE, !.isAnimating = FALSE,
                              !.animation = "none", !.acks = @ + 1]
  /\ ServerUnchanged

\* `await api.acknowledgeRollback()` returns or throws
acknowledgeRollbackAnswered ==
  /\ client.acks > 0
  /\ client' = [client EXCEPT !.acks = @ - 1]
  /\ ServerUnchanged

\* the codes a push is answered with; "" is success
PushCodes ==
  { "", "already_played_today", "rollback_required", "rate_limited" }

NextClient ==
  \/ \E serverState \in ServerStates : loadState(serverState)
  \/ pushBoulder
  \/ \E code \in PushCodes, h \in 1..MaxStoreHeight : pushAnswered(code, h)
  \/ animatePushComplete
  \/ rollDownComplete
  \/ acknowledgeRollbackAnswered

SpecClient == Init /\ [][NextClient]_vars

-----------------------------------------------------------------------------
(* Properties *)

\* the number of a day of 2024 within the year, from the lengths of the months
DaysBeforeMonth2024 == <<0, 31, 60, 91, 121, 152, 182, 213, 244, 274, 305, 335>>
CalendarDay(s) == DaysBeforeMonth2024[s.m] + s.d

\* the PushEvents of a player for a date
PushEvents(playerId, playDate) ==
  { e \in daily_plays : e.player_id = playerId /\ e.play_date = playDate }

\* C1: in every reachable state every player has height <= maxHeight.
C1_HeightAtMostMaxHeight ==
  \A p \in DOMAIN players : players[p].height <= players[p].max_height

\* a player who died and climbed again: the height is below the high-water mark
C1_Witness ==
  \E p \in DOMAIN players :
    /\ players[p].height > 0
    /\ players[p].height < players[p].max_height
    /\ players[p].death_count > 0

\* C2: the push ledger never holds two PushEvents for one (playerId, playDate),
\* however push requests overlap.
C2_OnePushPerDate ==
  \A e1, e2 \in daily_plays :
    (e1.player_id = e2.player_id /\ e1.play_date = e2.play_date) => e1 = e2

\* a push was turned down as a duplicate while another push of the same player,
\* which read the player row before that date was recorded, is still waiting
C2_Witness ==
  /\ resp.op = "push" /\ resp.error = "already_played_today"
  /\ \E req \in BagToSet(inflight) :
       /\ req.playerId = resp.to
       /\ req.player.total_pushes < players[req.playerId].total_pushes

\* C3: once (playerId, localDate) is in the ledger, a push with that pair that
\* passed the rate limiter is answered already_played_today, writes no
\* DeathEvent and leaves the Player row (height, streak) as it was.
C3_SecondPushRejected ==
  [][\A req \in BagToSet(inflight), d \in ClientDates :
       (PushEnd(req, [localDate |-> d]) /\ PushEvents(req.playerId, d) # {})
         => /\ resp'.error = "already_played_today"
            /\ resp'.status = 409
            /\ deaths' = deaths
            /\ players' = players
            /\ daily_plays' = daily_plays]_vars

\* a duplicate push was turned down for a player who has died and climbed
\* again since: other operations lie between the two pushes
C3_Witness ==
  /\ resp.op = "push" /\ resp.error = "already_played_today"
  /\ resp.to \in DOMAIN players
  /\ players[resp.to].death_count > 0
  /\ players[resp.to].height > 0

\* C4: where lastPlayedDate is D, a push with D+1 that passed the rate limiter
\* succeeds and raises height and streak by exactly 1.
C4_NextDayPushSucceeds ==
  [][\A req \in BagToSet(inflight), d \in ClientDates :
       LET row == players[req.playerId] IN
       ( /\ PushEnd(req, [localDate |-> d])
         /\ row.last_played_date # NULL
         /\ CalendarDay(d) = CalendarDay(row.last_played_date) + 1 )
         => /\ resp'.status = 200
            /\ players'[req.playerId].height = row.height + 1
            /\ players'[req.playerId].streak = row.streak + 1]_vars

\* C5, as claimed: a push answered rollback_required leaves the stored height
\* and streak as they were.
C5_RollbackPushKeepsHeight ==
  [][\A req \in BagToSet(inflight), d \in ClientDates :
       (PushEnd(req, [localDate |-> d]) /\ resp'.error = "rollback_required")
         => /\ players'[req.playerId].height = players[req.playerId].height
            /\ players'[req.playerId].streak = players[req.playerId].streak]_vars

\* C5, amended: a push answered rollback_required itself resets the stored
\* height and streak to 0 and counts the death, in the step that writes the
\* DeathEvent; the response carries the height and streak from before.
C5_RollbackPushResets ==
  [][\A req \in BagToSet(inflight), d \in ClientDates :
       (PushEnd(req, [localDate |-> d]) /\ resp'.error = "rollback_required")
         => /\ players'[req.playerId].height = 0
            /\ players'[req.playerId].streak = 0
            /\ players'[req.playerId].death_count =
                 players[req.playerId].death_count + 1
            /\ Len(deaths') = Len(deaths) + 1
            /\ resp'.heightLost = players[req.playerId].height
            /\ resp'.streakLost = players[req.playerId].streak]_vars

\* the answer rollback_required for a height of 2, and the player already at 0
C5_Witness ==
  /\ resp.op = "push" /\ resp.error = "rollback_required"
  /\ resp.heightLost = 2
  /\ players[resp.to].height = 0
  /\ players[resp.to].streak = 0

\* C6: with lastPlayedDate = D and height > 0, a push that passed the rate
\* limiter, with a date D+2 or later that is not in the ledger, is answered
\* rollback_required with heightLost = height, streakLost = streak and
\* daysMissed = (date - D) - 1.
C6_RollbackResponse ==
  [][\A req \in BagToSet(inflight), d \in ClientDates :
       LET row == players[req.playerId] IN
       ( /\ PushEnd(req, [localDate |-> d])
         /\ row.last_played_date # NULL
         /\ row.height > 0
         /\ CalendarDay(d) >= CalendarDay(row.last_played_date) + 2
         /\ PushEvents(req.playerId, d) = {} )
         => /\ resp'.status = 409
            /\ resp'.error = "rollback_required"
            /\ resp'.heightLost = row.height
            /\ resp'.streakLost = row.streak
            /\ resp'.daysMissed =
                 (CalendarDay(d) - CalendarDay(row.last_played_date)) - 1]_vars

\* the answer to a push three days after the last one (two days missed), for
\* a player who has died before and stands at height 1 again
C6_Witness ==
  /\ resp.op = "push" /\ resp.error = "rollback_required"
  /\ resp.daysMissed = 2
  /\ resp.heightLost = 1
  /\ resp.streakLost = 1
  /\ players[resp.to].death_count = 2

\* the last response told the player of playerId that a rollback is due
DetectedByGet(playerId) ==
  resp.op = "get" /\ resp.status = 200 /\ resp.to = playerId /\ resp.needsRollback
DetectedByPush(playerId) ==
  resp.op = "push" /\ resp.error = "rollback_required" /\ resp.to = playerId

\* C7, as claimed: acknowledge-rollback after a detected rollback (by GET or
\* by push) leaves height = 0 and streak = 0 and adds exactly 1 to deathCount.
C7_AckCountsOneDeath ==
  [][\A h \in Ids :
       (AcknowledgeRollback(h) /\ (DetectedByGet(h) \/ DetectedByPush(h)))
         => /\ players'[h].height = 0
            /\ players'[h].streak = 0
            /\ players'[h].death_count = players[h].death_count + 1]_vars

\* C7, amended: acknowledge-rollback right after a GET that reported
\* needsRollback leaves height = 0 and streak = 0 and adds exactly 1 to
\* deathCount; right after a push answered rollback_required it leaves
\* height = 0 and streak = 0 and deathCount as it is (that push has counted the
\* death already).
C7_AckAfterDetection ==
  [][\A h \in Ids :
       /\ (AcknowledgeRollback(h) /\ DetectedByGet(h))
            => /\ players'[h].height = 0
               /\ players'[h].streak = 0
               /\ players'[h].death_count = players[h].death_count + 1
               /\ Len(deaths') = Len(deaths) + 1
       /\ (AcknowledgeRollback(h) /\ DetectedByPush(h))
            => /\ players'[h].height = 0
               /\ players'[h].streak = 0
               /\ players'[h].death_count = players[h].death_count
               /\ deaths' = deaths]_vars

\* an acknowledge was answered, and the only death on record is the one a push
\* wrote (two days missed): the acknowledge added none
C7_Witness ==
  /\ resp.op = "ack" /\ resp.status = 200
  /\ Len(deaths) = 1
  /\ deaths[1].days_missed = 2
  /\ players[resp.to].death_count = 1
  /\ players[resp.to].height = 0

\* C8: acknowledge-rollback on a player whose height is 0 writes no DeathEvent
\* and changes no row; and since every acknowledge leaves the height at 0, a
\* second acknowledge in a row changes nothing.
C8_AckIdempotent ==
  [][\A h \in Ids :
       (AcknowledgeRollback(h) /\ h \in DOMAIN players)
         => /\ players'[h].height = 0
            /\ players[h].height = 0
                 => /\ deaths' = deaths
                    /\ players' = players
                    /\ daily_plays' = daily_plays
                    /\ resp'.status = 200]_vars

\* an acknowledge was answered for a player who has pushed and never died: the
\* call found the height at 0 (else it would have counted a death)
C8_Witness ==
  /\ resp.op = "ack" /\ resp.status = 200
  /\ players[resp.to].death_count = 0
  /\ deaths = <<>>

\* C9: a push with a date on or before lastPlayedDate is rejected and writes
\* nothing: no PushEvent, no DeathEvent, the Player row as it was.
C9_PastDateRejected ==
  [][\A req \in BagToSet(inflight), d \in ClientDates :
       LET row == players[req.playerId] IN
       ( /\ PushEnd(req, [localDate |-> d])
         /\ row.last_played_date # NULL
         /\ CalendarDay(d) <= CalendarDay(row.last_played_date) )
         => /\ resp'.status # 200
            /\ players' = players
            /\ daily_plays' = daily_plays
            /\ deaths' = deaths]_vars

\* C10: every DeathEvent has daysMissed >= 1.
C10_DaysMissedPositive ==
  \A i \in 1 .. Len(deaths) : deaths[i].days_missed >= 1

\* C11: when requests do not overlap, at most one DeathEvent is written for a
\* player between two consecutive successful pushes of theirs (and after the
\* last one): the count of deaths rows since the player's last daily_plays row
\* never exceeds 1.
C11_OneDeathPerInterval ==
  \A p \in DOMAIN players : deathsSincePush[p] <= 1

\* a second missed interval has cost its one death, and an acknowledgement has
\* been answered after it
C11_Witness ==
  /\ resp.op = "ack" /\ resp.status = 200
  /\ resp.to \in DOMAIN players
  /\ players[resp.to].death_count = 2
  /\ deathsSincePush[resp.to] = 1
  /\ Len(deaths) = 2 /\ deaths[2].days_missed = 2

\* C12: when two push requests of a player are in flight at once, both having
\* read the player row before either has written, and both carry a date that
\* triggers the rollback, only one DeathEvent is written and deathCount rises by
\* only 1: a push that writes a DeathEvent leaves death_count one above the
\* death_count of the row it read.
C12_OneDeathForOverlappingPushes ==
  [][\A req \in BagToSet(inflight), d \in RaceDates :
       ( /\ PushEnd(req, [localDate |-> d])
         /\ Len(deaths') = Len(deaths) + 1 )
       => players'[req.playerId].death_count = req.player.death_count + 1]_vars

\* C13: overlapping pushes of a player are serializable, so no push is lost or
\* counted twice in the height.  Run one after the other in any order, pushes
\* that write no DeathEvent raise the height by one each, so the final row of a
\* player who never died has height = streak = totalPushes, and the ledger
\* holds the heights 1..totalPushes once each.
C13_NoPushLost ==
  \A p \in DOMAIN players :
    players[p].death_count = 0 =>
      /\ players[p].height = players[p].total_pushes
      /\ players[p].streak = players[p].total_pushes
      /\ { e.height_after : e \in { x \in daily_plays : x.player_id = p } }
           = 1..players[p].total_pushes

\* the only write since the push request req read its row is that of another
\* push with the same row and the date d, which succeeded ...
TwinPushed(req, d) ==
  LET row == players[req.playerId] IN
  /\ row = [req.player EXCEPT !.height = @ + 1, !.streak = @ + 1,
                              !.last_played_date = d, !.total_pushes = @ + 1,
                              !.max_height = Max(@, req.player.height + 1)]
  /\ PushEvents(req.playerId, d) # {}

\* ... or which was answered rollback_required
TwinDied(req, d) ==
  LET row == players[req.playerId] IN
  /\ req.player.last_played_date # NULL
  /\ row = [req.player EXCEPT !.height = 0, !.streak = 0, !.death_count = @ + 1,
                              !.last_seen_at = now]
  /\ Len(deaths) > 0
  /\ deaths[Len(deaths)] =
       [ player_id |-> req.playerId, height_lost |-> req.player.height,
         streak_lost |-> req.player.streak,
         days_missed |-> daysBetween(req.player.last_played_date, d) - 1 ]

\* C14: of two push requests with the same (playerId, localDate) in flight at
\* once exactly one succeeds and the other fails, and height, streak and
\* totalPushes each end exactly 1 above the row the two requests read.
C14_ExactlyOneOfTwoSucceeds ==
  [][\A req \in BagToSet(inflight), d \in RaceDates :
       ( /\ PushEnd(req, [localDate |-> d])
         /\ TwinPushed(req, d) \/ TwinDied(req, d) )
       => /\ TwinPushed(req, d) <=> resp'.status # 200
          /\ players'[req.playerId].height = req.player.height + 1
          /\ players'[req.playerId].streak = req.player.streak + 1
          /\ players'[req.playerId].total_pushes = req.player.total_pushes + 1]_vars

\* the player is in RollbackRequired for the claimed date d: what GET reports as
\* needsRollback for the stored row
RollbackRequired(playerId, d) ==
  PlayerState(playerId, players[playerId], FALSE, d).needsRollback

C16_ReadAndWriteAgree ==
  [][\A req \in BagToSet(inflight), d \in ClientDates :
       PushEnd(req, [localDate |-> d]) =>
         LET read == PlayerState(req.playerId, players[req.playerId], FALSE, d) IN
         /\ read.needsRollback <=> resp'.error = "rollback_required"
         /\ Truthy(read.hasPlayedToday) <=> resp'.error = "already_played_today"]_vars

\* C17: for a Fresh player (no lastPlayedDate) a push with any valid date that
\* has passed the rate limiter succeeds and yields height = 1, streak = 1,
\* totalPushes = 1 and lastPlayedDate = that date.
C17_FreshPushSucceeds ==
  [][\A req \in BagToSet(inflight), d \in ClientDates :
       ( /\ PushEnd(req, [localDate |-> d])
         /\ players[req.playerId].last_played_date = NULL )
       => /\ resp'.status = 200 /\ resp'.success
          /\ resp'.height = 1 /\ resp'.streak = 1
          /\ players'[req.playerId].height = 1
          /\ players'[req.playerId].streak = 1
          /\ players'[req.playerId].total_pushes = 1
          /\ players'[req.playerId].last_played_date = d
          /\ PushEvents(req.playerId, d)' # {}]_vars

\* a Fresh player has pushed on the leap day
C17_Witness ==
  /\ resp.op = "push" /\ resp.status = 200 /\ resp.height = 1
  /\ resp.to \in DOMAIN players
  /\ players[resp.to].total_pushes = 1
  /\ players[resp.to].death_count = 0
  /\ players[resp.to].last_played_date = Ymd(2024, 2, 29)
  /\ daily_plays = {[ player_id |-> resp.to, play_date |-> Ymd(2024, 2, 29),
                      height_after |-> 1, streak_at_time |-> 1 ]}

\* the PushEvents of a player
PushEventsOf(playerId) == { e \in daily_plays : e.player_id = playerId }

\* C18 (counter): in every reachable state the totalPushes of a player equals
\* the number of their PushEvents.
TotalPushesCountsPushEvents ==
  \A p \in DOMAIN players :
    players[p].total_pushes = Cardinality(PushEventsOf(p))

\* C18: totalPushes equals the number of PushEvents of the player in every
\* reachable state, and a recordPush whose insert of the PushEvent fails (the
\* ledger already holds the player's row of that date) leaves the Player row
\* unchanged.
C18_PushCountedAtomically ==
  /\ []TotalPushesCountsPushEvents
  /\ [][\A p \in Ids, s \in RaceDates, h \in StoreHeights, k \in StoreHeights :
          (CallRecordPush(p, s, h, k) /\ PushEvents(p, s) # {})
            => /\ resp'.error = "SQLITE_CONSTRAINT_UNIQUE"
               /\ players' = players /\ daily_plays' = daily_plays]_vars

\* recordPush has been called for a date whose PushEvent exists and has thrown
C18_Witness ==
  \E p \in DOMAIN players :
    /\ resp.op = "recordPush" /\ resp.to = p
    /\ resp.error = "SQLITE_CONSTRAINT_UNIQUE"
    /\ players[p].height = 1 /\ players[p].total_pushes = 2
    /\ players[p].last_played_date = Ymd(2024, 2, 29)
    /\ Cardinality(PushEventsOf(p)) = 2
    /\ \E e \in PushEvents(p, Ymd(2024, 2, 29)) : e.height_after = 1

\* the DeathEvents of a player
DeathEventsOf(playerId) ==
  { i \in 1..Len(deaths) : deaths[i].player_id = playerId }

\* C19 (counter): in every reachable state the deathCount of a player equals
\* the number of their DeathEvents.
DeathCountCountsDeathEvents ==
  \A p \in DOMAIN players :
    players[p].death_count = Cardinality(DeathEventsOf(p))

\* C19: deathCount equals the number of DeathEvents of the player in every
\* reachable state, and no step writes a DeathEvent and leaves the player's
\* height or streak at its value from before the death: the step that appends
\* the DeathEvent sets both to 0.
C19_DeathCountedAndReset ==
  /\ []DeathCountCountsDeathEvents
  /\ [][Len(deaths') > Len(deaths) =>
          /\ Len(deaths') = Len(deaths) + 1
          /\ LET p == deaths'[Len(deaths')].player_id IN
             /\ players'[p].height = 0
             /\ players'[p].streak = 0
             /\ players'[p].death_count = players[p].death_count + 1]_vars

\* a push has cost a player of height 2 their second death
C19_Witness ==
  /\ resp.op = "push" /\ resp.error = "rollback_required"
  /\ resp.heightLost = 2
  /\ resp.to \in DOMAIN players
  /\ players[resp.to].death_count = 2
  /\ players[resp.to].height = 0 /\ players[resp.to].streak = 0
  /\ Len(deaths) = 2 /\ deaths[2].height_lost = 2

\* C20: the height or the streak of a player decreases only in a step that
\* writes a DeathEvent for that player, and in such a step both become 0
\* together; no other operation lowers either.
C20_OnlyDeathLowers ==
  [][\A p \in DOMAIN players :
       ( \/ players'[p].height < players[p].height
         \/ players'[p].streak < players[p].streak )
       => /\ Len(deaths') = Len(deaths) + 1
          /\ deaths'[Len(deaths')].player_id = p
          /\ players'[p].height = 0
          /\ players'[p].streak = 0]_vars

\* the player's push has just been answered with success: they have played, no
\* rollback has been detected since, and the next playable date is still the
\* day after lastPlayedDate
JustPushed(playerId) ==
  /\ resp.op = "push" /\ resp.status = 200 /\ resp.to = playerId
  /\ playerId \in DOMAIN players
  /\ players[playerId].height > 0

\* C21: a DeathEvent is written only for a player who missed a day.  Neither
\* acknowledge-rollback nor a push resets a player with height > 0 who has not
\* missed a day and for whom no rollback was detected: an acknowledge-rollback
\* sent right after the player's successful push, and a push with the day after
\* lastPlayedDate, write no DeathEvent and leave height and streak as they are
\* or higher.
C21_DeathOnlyAfterMissedDay ==
  [][\A h \in Ids :
       /\ (JustPushed(h) /\ AcknowledgeRollback(h))
            => /\ deaths' = deaths
               /\ players'[h].height = players[h].height
               /\ players'[h].streak = players[h].streak
       /\ \A req \in BagToSet(inflight), d \in ClientDates :
            ( /\ req.playerId = h /\ PushEnd(req, [localDate |-> d])
              /\ players[h].height > 0
              /\ players[h].last_played_date # NULL
              /\ isConsecutiveDay(players[h].last_played_date, d) )
            => /\ deaths' = deaths
               /\ players'[h].height >= players[h].height]_vars

\* how many recorded attempts of a player are younger than the window at the
\* present time
YoungAttempts(playerId) ==
  Cardinality({ i \in 1..Len(pushAttempts[playerId]) :
                  now - pushAttempts[playerId][i] < WINDOW_MS })

\* C22: the limiter admits at most MAX_ATTEMPTS push attempts of a player within
\* any trailing window of WINDOW_MS, and an attempt is rejected with
\* rate_limited exactly when MAX_ATTEMPTS admitted attempts of the player are
\* younger than WINDOW_MS; an admitted attempt is recorded with the present time.
C22_SlidingWindow ==
  [][\A h \in Ids :
       PushBegin(h) =>
         /\ YoungAttempts(h) <= MAX_ATTEMPTS
         /\ YoungAttempts(h) = MAX_ATTEMPTS
              => /\ resp' = Error("push", h, 429, "rate_limited")
                 /\ inflight' = inflight
         /\ YoungAttempts(h) < MAX_ATTEMPTS
              => /\ YoungAttempts(h)' = YoungAttempts(h) + 1
                 /\ pushAttempts'[h][Len(pushAttempts'[h])] = now
                 /\ YoungAttempts(h)' <= MAX_ATTEMPTS
                 /\ resp' # Error("push", h, 429, "rate_limited") \/ resp' = resp]_vars

\* the eleventh attempt inside a window that began half a window ago has been
\* rejected
C22_Witness ==
  /\ resp = Error("push", "p1", 429, "rate_limited")
  /\ now = TickMs
  /\ Len(pushAttempts["p1"]) = MAX_ATTEMPTS
  /\ pushAttempts["p1"][1] = 0
  /\ pushAttempts["p1"][MAX_ATTEMPTS] = TickMs

\* C23: an attempt rejected with rate_limited changes neither the timestamps
\* the limiter has recorded nor the store, so rejected attempts never extend the
\* lock-out: an attempt made WINDOW_MS or more after the oldest recorded
\* attempt is admitted.
C23_RejectedAttemptsLeaveNoTrace ==
  [][\A h \in Ids :
       PushBegin(h) =>
         /\ YoungAttempts(h) >= MAX_ATTEMPTS
              => /\ resp' = Error("push", h, 429, "rate_limited")
                 /\ UNCHANGED <<pushAttempts, players, daily_plays, deaths>>
         /\ ( /\ Len(pushAttempts[h]) > 0
              /\ now - pushAttempts[h][1] >= WINDOW_MS )
              => /\ pushAttempts' # pushAttempts
                 /\ pushAttempts'[h][Len(pushAttempts'[h])] = now
                 /\ resp' # Error("push", h, 429, "rate_limited") \/ resp' = resp]_vars

\* after a rejected attempt, the attempt made a whole window after the ten
\* admitted ones has been admitted and waits for its body
C23_Witness ==
  /\ resp = Error("push", "p1", 429, "rate_limited")
  /\ inflight # EmptyBag
  /\ pushAttempts["p1"] = << 2 * TickMs >>

\* the errors of POST /api/push and of GET /api/player that the claim names
PushErrorsWithoutEffect ==
  { "missing_player_id", "invalid_player", "invalid_body", "invalid_date",
    "already_played_today", "rate_limited" }
GetErrorsWithoutEffect == { "invalid_date", "invalid_player" }

\* C24: every push answered missing_player_id, invalid_player, invalid_body,
\* invalid_date, already_played_today or rate_limited, and every GET answered
\* invalid_date or invalid_player, leaves all Player rows, PushEvents and
\* DeathEvents unchanged.
C24_ErrorsLeaveStoreUnchanged ==
  [][ /\ \A h \in Headers :
           (PushBegin(h) /\ resp'.error \in PushErrorsWithoutEffect)
             => UNCHANGED <<players, daily_plays, deaths>>
      /\ \A req \in BagToSet(inflight), body \in Bodies :
           (PushEnd(req, body) /\ resp'.error \in PushErrorsWithoutEffect)
             => UNCHANGED <<players, daily_plays, deaths>>
      /\ \A h \in Headers, s \in ClientDates \cup BadDates \cup {NoDate},
            newId \in Ids :
           (Get(h, s, newId) /\ resp'.error \in GetErrorsWithoutEffect)
             => UNCHANGED <<players, daily_plays, deaths>> ]_vars

\* a push of a player who has climbed, died and climbed again was turned down
\* for its date
C24_Witness ==
  /\ resp = Error("push", "p1", 400, "invalid_date")
  /\ "p1" \in DOMAIN players
  /\ players["p1"].height = 1 /\ players["p1"].total_pushes = 2
  /\ Len(deaths) = 1

\* a localDate that is missing or fails isValidDateString
InvalidDates == BadDates \cup {NoDate}

\* C25, as claimed: a push or GET whose localDate is missing or invalid is
\* rejected with invalid_date before any access to the store has been made for
\* the request, whatever the player id.  For a push this means that the handler
\* never answers for the player id (invalid_player) before it has the body, and
\* that the request whose date is found invalid has read no player row.
C25_InvalidDateBeforeStore ==
  [][ /\ \A h \in Headers, s \in InvalidDates, newId \in Ids :
           Get(h, s, newId)
             => /\ resp' = Error("get", h, 400, "invalid_date")
                /\ UNCHANGED <<players, daily_plays, deaths>>
      /\ \A h \in Ids :
           PushBegin(h) => resp' # Error("push", h, 404, "invalid_player")
      /\ \A req \in BagToSet(inflight), s \in InvalidDates :
           PushEnd(req, [localDate |-> s])
             => /\ resp' = Error("push", req.playerId, 400, "invalid_date")
                /\ "player" \notin DOMAIN req ]_vars

\* C25, amended: a GET whose localDate is missing or invalid is rejected with
\* invalid_date before any access to the store, whatever the player id.  A push
\* is first answered for its header, its quota and its player id: only a push
\* of a registered player that passed the limiter, and has read the player's
\* row, is rejected with invalid_date, and it writes nothing.
C25_InvalidDateRejected ==
  [][ /\ \A h \in Headers, s \in InvalidDates, newId \in Ids :
           Get(h, s, newId)
             => /\ resp' = Error("get", h, 400, "invalid_date")
                /\ UNCHANGED <<players, daily_plays, deaths>>
      /\ \A h \in Headers :
           PushBegin(h) =>
             IF h = NoHeader
             THEN resp' = Error("push", h, 400, "missing_player_id")
             ELSE IF YoungAttempts(h) >= MAX_ATTEMPTS
             THEN resp' = Error("push", h, 429, "rate_limited")
             ELSE IF h \notin DOMAIN players
             THEN resp' = Error("push", h, 404, "invalid_player")
             ELSE /\ resp' = resp
                  /\ BagIn([ playerId |-> h, player |-> players[h] ], inflight')
      /\ \A req \in BagToSet(inflight), s \in InvalidDates :
           PushEnd(req, [localDate |-> s])
             => /\ resp' = Error("push", req.playerId, 400, "invalid_date")
                /\ req.playerId \in DOMAIN players
                /\ "player" \in DOMAIN req
                /\ UNCHANGED <<players, daily_plays, deaths>> ]_vars

\* a push of a registered player has been rejected for its date after a GET of
\* an unknown player was
C25_Witness ==
  /\ resp = Error("push", "p1", 400, "invalid_date")
  /\ "p1" \in DOMAIN players
  /\ players["p1"].total_pushes = 0
  /\ Len(pushAttempts["p1"]) = 1

\* the columns of a players row that the claim names
Progress(row) ==
  << row.height, row.streak, row.last_played_date, row.total_pushes,
     row.max_height, row.death_count >>

\* C26: a GET never changes a player's height, streak, lastPlayedDate,
\* totalPushes, maxHeight or deathCount and writes no PushEvent and no
\* DeathEvent; needsRollback is recomputed from the stored fields, so the same
\* GET made again on the state the GET leaves returns the same hasPlayedToday,
\* needsRollback and previousHeight.
C26_GetKeepsProgress ==
  [][\A h \in Headers, s \in ClockDates, newId \in Ids :
       Get(h, s, newId) =>
         /\ \A p \in DOMAIN players : Progress(players'[p]) = Progress(players[p])
         /\ daily_plays' = daily_plays /\ deaths' = deaths
         /\ (h # NoHeader /\ resp'.status = 200) =>
              LET again == PlayerState(h, players'[h], FALSE, s) IN
              /\ again.hasPlayedToday = resp'.hasPlayedToday
              /\ again.needsRollback = resp'.needsRollback
              /\ again.previousHeight = resp'.previousHeight]_vars

\* a GET made three half windows after the player's push has reported the
\* rollback and has left its time in last_seen_at, and the height is still 1
C26_Witness ==
  /\ resp.op = "get" /\ resp.status = 200 /\ resp.needsRollback
  /\ resp.to \in DOMAIN players
  /\ now = 3 * TickMs
  /\ players[resp.to].last_seen_at = now
  /\ players[resp.to].height = 1
  /\ pushAttempts[resp.to] = << 0 >>

\* C27: along every execution the totalPushes, the maxHeight and the
\* deathCount of each player never decrease.
C27_CountersNeverDecrease ==
  [][\A p \in DOMAIN players :
       /\ players'[p].total_pushes >= players[p].total_pushes
       /\ players'[p].max_height >= players[p].max_height
       /\ players'[p].death_count >= players[p].death_count]_vars

\* a player who reached height 2, died and pushed again: the push that wrote
\* height 1 has kept the high-water mark at 2
C27_Witness ==
  \E p \in DOMAIN players :
    /\ players[p].height = 1 /\ players[p].max_height = 2
    /\ players[p].total_pushes = 3 /\ players[p].death_count = 1
    /\ resp.op = "push" /\ resp.status = 200 /\ resp.height = 1

\* C28: in every reachable state the streak of a player counts consecutive
\* calendar days with a recorded push: when streak = s > 0 the ledger holds a
\* PushEvent of the player for each of the s consecutive dates that end at
\* lastPlayedDate.
C28_StreakCountsLedgerDays ==
  \A p \in DOMAIN players :
    players[p].streak > 0 =>
      /\ players[p].last_played_date # NULL
      /\ \A k \in 0..(players[p].streak - 1) :
           \E e \in PushEventsOf(p) :
             CalendarDay(e.play_date) = CalendarDay(players[p].last_played_date) - k

\* a player who died has pushed on three days in a row since
C28_Witness ==
  \E p \in DOMAIN players :
    /\ players[p].streak = 3 /\ players[p].death_count = 1
    /\ players[p].last_played_date = Ymd(2024, 3, 2)
    /\ Cardinality(PushEventsOf(p)) = 4

\* the DeathEvents of a player, in the order they were written
DeathRowsOf(playerId) ==
  SelectSeq(deaths, LAMBDA e : e.player_id = playerId)

\* a request made with the X-Player-ID header h takes a step
OperationOf(h) ==
  \/ \E s \in TwoDates, newId \in TwoIds : Get(h, s, newId)
  \/ PushBegin(h)
  \/ AcknowledgeRollback(h)
  \/ \E req \in BagToSet(inflight), s \in TwoDates :
       req.playerId = h /\ PushEnd(req, [localDate |-> s])

\* the row, the PushEvents, the DeathEvents and the rate-limit timestamps of
\* every player other than h are the same after the step
OthersUnchanged(h) ==
  /\ \A q \in DOMAIN players \ {h} :
       /\ q \in DOMAIN players'
       /\ players'[q] = players[q]
  /\ \A q \in TwoIds \ {h} :
       /\ { e \in daily_plays' : e.player_id = q } = PushEventsOf(q)
       /\ SelectSeq(deaths', LAMBDA e : e.player_id = q) = DeathRowsOf(q)
       /\ pushAttempts'[q] = pushAttempts[q]

\* C29: an operation on one player (GET, push, acknowledge-rollback, the
\* accounting of the rate limiter) leaves the Player row, the PushEvents, the
\* DeathEvents and the rate-limit timestamps of every other player unchanged,
\* whatever the interleaving of the requests of different players.
C29_OtherPlayersUnchanged ==
  [][\A h \in TwoIds : OperationOf(h) => OthersUnchanged(h)]_vars

\* p2 has just died by acknowledge-rollback while p1, who pushed the same
\* day, stands at height 1 with the attempt and the PushEvent on record
C29_Witness ==
  /\ DOMAIN players = TwoIds
  /\ resp.op = "ack" /\ resp.to = "p2" /\ resp.status = 200
  /\ players["p2"].height = 0 /\ players["p2"].death_count = 1
  /\ Len(DeathRowsOf("p2")) = 1 /\ Len(DeathRowsOf("p1")) = 0
  /\ players["p1"].height = 1 /\ players["p1"].death_count = 0
  /\ Cardinality(PushEventsOf("p1")) = 1 /\ Cardinality(PushEventsOf("p2")) = 1
  /\ Len(pushAttempts["p1"]) = 1 /\ Len(pushAttempts["p2"]) = 1

\* a registered player who has made no push yet
NewlyRegistered(p) ==
  /\ p \in DOMAIN players
  /\ players[p].last_played_date = NULL
  /\ players[p].total_pushes = 0

\* the GET of the scenario: hasPlayedToday is the boolean false and
\* needsRollback is false
ScenarioGet ==
  \A h \in Ids, d \in ClientDates, newId \in Ids :
    (NewlyRegistered(h) /\ Get(h, d, newId))
    => /\ resp'.status = 200
       /\ resp'.hasPlayedToday = Bool(FALSE)
       /\ resp'.needsRollback = FALSE

\* the pushes of the scenario: the first push with d succeeds with height 1
\* and streak 1, a second push with d is answered already_played_today
ScenarioPushes ==
  \A req \in BagToSet(inflight), d \in ClientDates :
    PushEnd(req, [localDate |-> d])
    => /\ NewlyRegistered(req.playerId)
          => /\ resp'.status = 200 /\ resp'.success
             /\ resp'.height = 1 /\ resp'.streak = 1
       /\ ( /\ players[req.playerId].total_pushes = 1
            /\ players[req.playerId].last_played_date = d )
          => /\ resp'.status = 409
             /\ resp'.error = "already_played_today"

\* C30: for a newly registered player, GET with localDate d returns
\* hasPlayedToday = false (the boolean) and needsRollback = false; the first
\* push with d returns success with height 1 and streak 1; a second push with
\* d returns already_played_today.
C30_NewPlayerScenario ==
  [][ScenarioGet /\ ScenarioPushes]_vars

\* the calendar, from the lengths of the months and the rule of leap years
IsLeapYear(y) == (y % 4 = 0 /\ y % 100 # 0) \/ y % 400 = 0
DaysInMonth(y, m) ==
  IF m = 2 THEN (IF IsLeapYear(y) THEN 29 ELSE 28)
  ELSE IF m \in {4, 6, 9, 11} THEN 30 ELSE 31

\* a string of the form YYYY-MM-DD that names a day of the calendar
RealDate(s) ==
  /\ MatchesFormat(s)
  /\ s.m \in 1..12
  /\ s.d \in 1..DaysInMonth(s.y, s.m)

\* the calendar day after a real date
DayAfter(s) ==
  IF s.d < DaysInMonth(s.y, s.m) THEN Ymd(s.y, s.m, s.d + 1)
  ELSE IF s.m < 12 THEN Ymd(s.y, s.m + 1, 1)
  ELSE Ymd(s.y + 1, 1, 1)

\* C31: for calendar dates a and b, isConsecutiveDay(a, b) is true exactly when
\* b is the calendar day after a, across month ends, year ends and leap days:
\* (Jan 31, Feb 1) is true, (Feb 28, Mar 1) is true in 2023 and false in the
\* leap year 2024, (Dec 31, Jan 1 of the next year) is true.
C31_ConsecutiveIsDayAfter ==
  /\ ( /\ resp.op = "isConsecutiveDay"
       /\ RealDate(resp.earlier) /\ RealDate(resp.later) )
     => /\ resp.error = ""
        /\ resp.result = Bool(DayAfter(resp.earlier) = resp.later)
  /\ isConsecutiveDay(Ymd(2024, 1, 31), Ymd(2024, 2, 1))
  /\ isConsecutiveDay(Ymd(2023, 2, 28), Ymd(2023, 3, 1))
  /\ ~isConsecutiveDay(Ymd(2024, 2, 28), Ymd(2024, 3, 1))
  /\ isConsecutiveDay(Ymd(2024, 2, 28), Ymd(2024, 2, 29))
  /\ isConsecutiveDay(Ymd(2023, 12, 31), Ymd(2024, 1, 1))

\* isConsecutiveDay has answered true for the last day of 2023 and the first
\* of 2024
C31_Witness ==
  /\ resp.op = "isConsecutiveDay"
  /\ resp.earlier = Ymd(2023, 12, 31) /\ resp.later = Ymd(2024, 1, 1)
  /\ resp.result = Bool(TRUE)

\* C32: the date validity check accepts a string exactly when it has the form
\* YYYY-MM-DD and names a real calendar date; 2024-02-30, 2023-02-29,
\* 2024-04-31 and 2024-13-01 are rejected, and no accepted string is read as
\* another date than the one it spells.
C32_ValidIffRealDate ==
  resp.op = "isValidDateString"
  => /\ resp.result = Bool(RealDate(resp.dateStr))
     /\ resp.result = Bool(TRUE)
        => ToISODate(ParseDate(resp.dateStr).time) = resp.dateStr

C34_LastPlayedDateNeverBackward ==
  /\ [][\A p \in DOMAIN players :
          ( /\ players'[p].last_played_date # players[p].last_played_date
            /\ players[p].last_played_date # NULL )
          => /\ players'[p].last_played_date # NULL
             /\ ~StrLeq(players'[p].last_played_date, players[p].last_played_date)]_vars
  /\ [](\A p \in DOMAIN players : \A e \in PushEventsOf(p) :
          StrLeq(e.play_date, players[p].last_played_date))

\* C35: in every reachable state, under any interleaving of requests, every
\* player has height = streak, and every PushEvent has height_after =
\* streak_at_time.
C35_HeightEqualsStreak ==
  /\ \A p \in DOMAIN players : players[p].height = players[p].streak
  /\ \A e \in daily_plays : e.height_after = e.streak_at_time

\* two overlapping pushes for two dates have both succeeded from the same row:
\* two PushEvents, and height and streak both at 1
C35_Witness ==
  \E p \in DOMAIN players :
    /\ players[p].total_pushes = 2 /\ players[p].death_count = 0
    /\ players[p].height = 1 /\ players[p].streak = 1
    /\ Cardinality(PushEventsOf(p)) = 2
    /\ \A e \in PushEventsOf(p) : e.height_after = 1 /\ e.streak_at_time = 1

\* C36: in every GET response hasPlayedToday and needsRollback are never both
\* true, needsRollback = true implies height > 0 and previousHeight = height,
\* and needsRollback = false implies previousHeight = 0; a player created by
\* the GET itself (no player-id header) gets needsRollback = false and
\* height = 0.
C36_GetFlagsConsistent ==
  (resp.op = "get" /\ resp.status = 200)
  => /\ ~(Truthy(resp.hasPlayedToday) /\ resp.needsRollback)
     /\ resp.needsRollback
        => (resp.height > 0 /\ resp.previousHeight = resp.height)
     /\ ~resp.needsRollback => resp.previousHeight = 0
     /\ resp.to = NoHeader => (~resp.needsRollback /\ resp.height = 0)

\* a GET for Mar 2 has told a player at height 2, last played on Feb 29, that
\* the boulder rolls back
C36_Witness ==
  /\ resp.op = "get" /\ resp.status = 200
  /\ resp.needsRollback /\ resp.hasPlayedToday = Bool(FALSE)
  /\ resp.height = 2 /\ resp.previousHeight = 2
  /\ resp.lastPlayedDate = Ymd(2024, 2, 29)

\* the errors a push meets after the rate limiter has admitted it
ErrorsAfterLimiter ==
  { "invalid_body", "invalid_date", "already_played_today", "rollback_required" }

\* C37: the rate-limit check runs before the player lookup and the body
\* validation: a push request with a player-id header that is rate-limited is
\* answered rate_limited whoever the player is and whatever the body would be,
\* and one that is not rate-limited adds one timestamp to the id's attempts,
\* which stays when the request is then rejected as invalid_player,
\* invalid_body, invalid_date, already_played_today or rollback_required.
C37_LimiterBeforeLookup ==
  [][/\ \A h \in Ids :
          PushBegin(h) =>
            IF isRateLimited(h)
            THEN /\ resp' = Error("push", h, 429, "rate_limited")
                 /\ inflight' = inflight
            ELSE /\ pushAttempts'[h] = Append(RecentAttempts(h), now)
                 /\ h \notin DOMAIN players
                      => resp' = Error("push", h, 404, "invalid_player")
                 /\ h \in DOMAIN players
                      => inflight' = inflight (+)
                           SetToBag({[ playerId |-> h, player |-> players[h] ]})
     /\ \A req \in BagToSet(inflight), body \in Bodies :
          PushEnd(req, body) =>
            /\ pushAttempts' = pushAttempts
            /\ resp'.error \in ErrorsAfterLimiter \cup {""}]_vars

\* ten pushes with the id of a player who does not exist have each been
\* answered invalid_player; the eleventh is answered rate_limited
C37_Witness ==
  /\ resp = Error("push", "p1", 429, "rate_limited")
  /\ "p1" \notin DOMAIN players
  /\ Len(pushAttempts["p1"]) = MAX_ATTEMPTS

\* C38: the rate limiter guards only the push endpoint: GET /api/player and
\* acknowledge-rollback are never answered rate_limited and neither read nor
\* change the recorded attempt timestamps, however many times they are called
\* and however many push attempts the player has made: their answer is the
\* one the header, the date and the player row decide.
C38_LimiterGuardsOnlyPush ==
  [][/\ \A h \in Headers, s \in ClientDates \cup BadDates \cup {NoDate}, newId \in Ids :
          Get(h, s, newId) =>
            /\ pushAttempts' = pushAttempts
            /\ resp'.status # 429 /\ resp'.error # "rate_limited"
            /\ (s \in ClientDates /\ h \in DOMAIN players) => resp'.status = 200
     /\ \A h \in Headers :
          AcknowledgeRollback(h) =>
            /\ pushAttempts' = pushAttempts
            /\ resp'.status # 429 /\ resp'.error # "rate_limited"
            /\ h \in DOMAIN players => resp'.status = 200]_vars

\* the player has used up the ten push attempts of the window, and
\* acknowledge-rollback has still been answered
C38_Witness ==
  /\ "p1" \in DOMAIN players
  /\ isRateLimited("p1")
  /\ resp.op = "ack" /\ resp.to = "p1" /\ resp.status = 200
  /\ players["p1"].death_count = 1

\* C39: the two-phase rollback is ordered on the client: while needsRollback is
\* set with previousHeight > 0 a click sends no push but starts the rollback
\* animation, acknowledge-rollback is sent only when that animation has
\* finished, and the client never has a push request in flight while an
\* acknowledge-rollback request is still unanswered.
C39_RollbackOrderedOnClient ==
  /\ [][/\ ( /\ pushBoulder
             /\ client.needsRollback /\ client.previousHeight > 0 )
           => /\ client'.pushes = client.pushes
              /\ client'.animation = "rollback"
        /\ client'.acks > client.acks
           => /\ client.animation = "rollback"
              /\ client'.animation = "none"]_vars
  /\ [](~(client.pushes > 0 /\ client.acks > 0))

\* C40: for all valid dates a and b (the strings the validity check accepts),
\* isConsecutiveDay(a, b) holds exactly when daysBetween(a, b) = 1,
\* daysBetween(a, b) = -daysBetween(b, a), and daysBetween(a, b) > 0 exactly
\* when b is greater than a as a string, the comparison the GET path uses.
C40_DateAlgebra ==
  ( /\ resp.op = "daysBetween"
    /\ isValidDateString(resp.earlier) /\ isValidDateString(resp.later) )
  => /\ isConsecutiveDay(resp.earlier, resp.later) <=> resp.result = Num(1)
     /\ resp.result = Num(0 - daysBetween(resp.later, resp.earlier))
     /\ resp.result.num > 0 <=> ~StrLeq(resp.later, resp.earlier)
====
